---------------------------- MODULE Spec2Model ----------------------------
(***************************************************************************)
(* A model of the voice console (Console component and useRealtimeClient  *)
(* hook in src/src/components/OnchainProviders.tsx).                       *)
(*                                                                         *)
(* The console runs on one event loop.  Every handler is a task that runs  *)
(* atomically from one await to the next; pc[t] is the await a task is     *)
(* suspended at.  A task that ended by throwing rests at an "err_..."      *)
(* position until it is invoked again.                                     *)
(*                                                                         *)
(* client, wavRecorder and wavStreamPlayer are the three collaborators     *)
(* the console drives (RealtimeClient, WavRecorder, WavStreamPlayer);      *)
(* console holds the React state of Console().                             *)
(***************************************************************************)
EXTENDS Integers, Sequences, FiniteSets, TLC

\* ------------------------------------------------------------ bounds
MaxItems  == 2      \* conversation items a session creates
MaxAudio  == 1      \* audio deltas appended to one item
MaxLog    == 3      \* entries kept in the event log
MaxRun    == 5      \* realtime events counted in one run of a type
MaxResponses == 1   \* responses a session keeps while only audio is modelled
MaxPending == 1     \* conversation.updated handlers suspended in decode

ItemIds   == 1..MaxItems
Roles     == {"user", "assistant"}
Msgs      == {"a", "b"}                 \* transcripts, memory values
Texts     == {"h"}                      \* typed user messages
EvTypes   == {"response.audio.delta", "input_audio_buffer.append"}
Keys      == {"k", "l"}                      \* set_memory keys
Places    == {"p"}                      \* get_weather query locations

ConnIds   == {"conn1", "conn2"}         \* connectConversation invocations
StartIds  == {"start1", "start2"}       \* startRecording invocations
Tasks     == ConnIds \cup StartIds \cup
             {"disc", "stop", "intr", "focus", "weather", "turn"}
Modes     == {"none", "server_vad"}     \* turn-detection modes

VARIABLES
  client,           \* RealtimeClient: ready, connected, items, turnDetection,
                    \* instructions, transcription
  heap,             \* the item objects, shared by every list that holds them
  wavRecorder,      \* WavRecorder: processor (begun), recording, and the
                    \* calls waiting for the processor's receipt
  wavStreamPlayer,  \* WavStreamPlayer: track being played and its length
  console,          \* React state of Console()
  pc,               \* position of every task
  local,            \* locals a task keeps across an await
  decodes,          \* conversation.updated handlers suspended in decode
  ghost             \* history the properties speak about

vars == <<client, heap, wavRecorder, wavStreamPlayer, console, pc, local,
          decodes, ghost>>

\* ------------------------------------------------------------ values
NoItem == [role |-> "none", status |-> "none", audio |-> 0,
           transcript |-> "", text |-> "", file |-> 0, made |-> 0]

DefaultCoords == "default"              \* {lat: 37.775593, lng: -122.418137}
NoMarker      == [location |-> "null", weather |-> FALSE]
InitialMessage == "..."

\* useAccount() / useBalance(): whether a wallet address is connected and
\* whether its balance has been loaded.
NoWallet == [address |-> FALSE, balance |-> FALSE]
Wallets  == {NoWallet, [address |-> TRUE, balance |-> FALSE],
             [address |-> TRUE, balance |-> TRUE]}

InitialConsole ==
  [ items                |-> << >>,
    realtimeEvents       |-> << >>,
    isConnected          |-> FALSE,
    canPushToTalk        |-> TRUE,
    isRecording          |-> FALSE,
    memoryKv             |-> [k \in Keys |-> ""],
    coords               |-> DefaultCoords,
    marker               |-> NoMarker,
    lastAssistantMessage |-> InitialMessage,
    lastUserMessage      |-> InitialMessage,
    wallet               |-> NoWallet,
    apiKey               |-> "",
    showBalance          |-> FALSE ]

NoTrack == [trackId |-> 0, offset |-> 0]

\* What a send_eth call met and did: whether a wallet address was connected,
\* the recipient ("plain" for an address, else what the Basename resolved
\* to), whether sendTransaction was called and what the wallet did with it,
\* and the object returned.
NoReply ==
  [address |-> FALSE, name |-> "plain", submitted |-> FALSE,
   wallet |-> "none", kind |-> "none", text |-> ""]

InitialGhost ==
  [ runLen     |-> 0,       \* realtime events of the last type, in a row
    runBase    |-> 0,       \* length of the log when that run began
    discStreak |-> 0,       \* disconnectConversation calls just ended, in a row
    discFrom   |-> FALSE,   \* the running/last disconnect began connected
    discMid    |-> FALSE,   \* ... or began while connectConversation was
                            \* between setIsConnected(true) and its greeting
    everConn   |-> FALSE,   \* connectConversation was invoked at some time
    steps      |-> [t \in StartIds |-> << >>],  \* what a startRecording did
    cancelled  |-> [t \in StartIds \cup {"intr"} |-> NoTrack],
                            \* the arguments a task gave cancelResponse
    intrStopped |-> FALSE,  \* playback was silent when 'interrupted' resumed
    recBy      |-> "none",  \* the task whose record() call started capture
    afterStop  |-> FALSE,   \* stopRecording returned, no startRecording since
    turn       |-> [value |-> "none", was |-> "none", conn |-> FALSE,
                    rec |-> FALSE],
                            \* the last changeTurnEndType call: its argument,
                            \* and the mode, client and recorder it found
    afterSwitch |-> FALSE,  \* ... it has ended, was to manual and found the
                            \* recorder recording
    tool       |-> [name |-> "none", outcome |-> "none", reply |-> NoReply] ]
                            \* the last wallet tool call, how it ended, and
                            \* for send_eth what it met and answered

ErrPcs == {"err_getClient", "err_connect", "err_begin", "err_send",
           "err_record", "err_pause", "err_end", "err_cancel", "err_fetch"}

\* RealtimeClient as constructed, or none (ready = FALSE).  instructions is
\* TRUE when the session configuration holds the console's instructions.
ToolNames == {"set_memory", "get_weather", "send_eth", "get_account_balance",
              "hide_account_balance", "connect_wallet", "disconnect_wallet",
              "swap_usdc_for_ars"}

SessionEvents == {"realtime.event", "error", "conversation.interrupted",
                  "conversation.updated"}

MaxSubscribers == 2

\* tools[name]: how many handlers answer to the name and the wallet the
\* active one has captured; subscribers[e]: how many callbacks hear e.
NewClient(r) ==
  [ready |-> r, connected |-> FALSE, items |-> << >>,
   turnDetection |-> "none", instructions |-> FALSE,
   transcription |-> "null",
   tools |-> [n \in ToolNames |-> [handlers |-> 0, wallet |-> NoWallet]],
   subscribers |-> [e \in SessionEvents |-> 0]]

\* updateSession({instructions}); updateSession({input_audio_transcription:
\* {model: 'whisper-1'}}): the other session parameters are left alone.
SessionParameters(c) ==
  [c EXCEPT !.instructions = TRUE, !.transcription = "whisper-1"]

\* RealtimeClient.reset(): disconnects, puts the session configuration back
\* to its defaults and drops the tools and the event handlers.
ClientReset(c) == NewClient(c.ready)

\* RealtimeClient.addTool throws when the name is already taken: the effect
\* ends at its first addTool.
AddToolThrows(c) == \E n \in ToolNames : c.tools[n].handlers > 0

\* The eight addTool calls; the handlers close over the wallet of the render
\* the effect belongs to.
AddTools(c, w) ==
  [c EXCEPT !.tools = [n \in ToolNames |-> [handlers |-> 1, wallet |-> w]]]

\* The four client.on calls.
Subscribe(c) ==
  [c EXCEPT !.subscribers =
     [e \in SessionEvents |-> IF @[e] < MaxSubscribers THEN @[e] + 1
                              ELSE MaxSubscribers]]

\* The body of the setup effect, run for a render whose wallet is w.
SetupEffect(c, w) ==
  IF AddToolThrows(c) THEN SessionParameters(c)
  ELSE Subscribe(AddTools(SessionParameters(c), w))

Resting(t) == pc[t] \in {"idle", "done", "aborted"} \cup ErrPcs

Init ==
  /\ client \in { IF r THEN SetupEffect(NewClient(r), NoWallet)
                    ELSE NewClient(r) : r \in BOOLEAN }
  /\ heap = [i \in ItemIds |-> NoItem]
  /\ wavRecorder = [processor |-> FALSE, recording |-> FALSE,
                    queue |-> << >>]
  /\ wavStreamPlayer = [stream |-> FALSE, trackId |-> 0, len |-> 0,
                        interruptedTrackIds |-> {}]
  /\ console = InitialConsole
  /\ pc = [t \in Tasks |-> "idle"]
  /\ local = [t \in Tasks |-> NoTrack]
  /\ decodes = << >>
  /\ ghost = InitialGhost

\* A step of any task other than disconnectConversation ends a run of
\* disconnectConversation calls.
Touch(g) == [g EXCEPT !.discStreak = 0]

\* One more disconnectConversation call has ended (two in a row is all the
\* properties ask about).
Streak(g) == [g EXCEPT !.discStreak = IF @ < 2 THEN @ + 1 ELSE 2]

\* ------------------------------------------------------------ item objects
ItemsOf(list) == {list[k] : k \in 1..Len(list)}

\* Item objects nothing refers to any more.
FreeIds ==
  ItemIds \ (ItemsOf(client.items) \cup ItemsOf(console.items)
             \cup UNION {ItemsOf(decodes[k].snap) : k \in 1..Len(decodes)}
             \cup {decodes[k].id : k \in 1..Len(decodes)}
             \cup {local[t].trackId : t \in {u \in Tasks : ~Resting(u)}}
             \cup {wavStreamPlayer.trackId})

Remove(list, id) == SelectSeq(list, LAMBDA x : x # id)

\* The item objects some list still holds; the others are garbage.
Held(c, s, d) ==
  ItemsOf(c.items) \cup ItemsOf(s.items)
  \cup UNION {ItemsOf(d[k].snap) : k \in 1..Len(d)}
  \cup {d[k].id : k \in 1..Len(d)}

Collect(h, held) == [i \in ItemIds |-> IF i \in held THEN h[i] ELSE NoItem]


\* ------------------------------------------------------------ collaborators
\* RealtimeClient.isConnected()
ClientIsConnected(c) == c.connected

\* RealtimeClient.disconnect(): closes the socket and clears the conversation.
ClientDisconnect(c) == [c EXCEPT !.connected = FALSE, !.items = << >>]

\* RealtimeClient.connect() once the socket has opened.
ClientConnected(c) == [c EXCEPT !.connected = TRUE]

\* Every send on the session throws while the socket is closed.
ClientCanSend(c) == c.connected

\* WavRecorder.begin() / record() / pause() / end() refuse these states.
BeginThrows(r)  == r.processor
RecordThrows(r) == ~r.processor \/ r.recording
PauseThrows(r)  == ~r.processor \/ ~r.recording
EndThrows(r)    == ~r.processor

\* record(), pause() and end() post an event to the audio processor and
\* await its receipt; the processor answers in the order it was asked.
Asked(r, t)   == [r EXCEPT !.queue = Append(@, t)]
Answers(r, t) == Len(r.queue) > 0 /\ Head(r.queue) = t
Answered(r)   == [r EXCEPT !.queue = Tail(@)]

RecorderBegun(r)       == [r EXCEPT !.processor = TRUE]
RecorderRecording(r)   == [Answered(r) EXCEPT !.recording = TRUE]
RecorderPaused(r)      == [Answered(r) EXCEPT !.recording = FALSE]
RecorderEnded(r)       == [Answered(r) EXCEPT !.processor = FALSE,
                                              !.recording = FALSE]

\* WavStreamPlayer.add16BitPCM(frame, trackId)
PlayerAdd(p, id) ==
  IF id \in p.interruptedTrackIds THEN p
  ELSE [p EXCEPT !.stream = TRUE, !.trackId = id,
                 !.len = IF p.stream /\ p.trackId = id /\ p.len < MaxAudio
                         THEN p.len + 1 ELSE 1]

\* WavStreamPlayer.interrupt(): the offsets the device may report.
InterruptResults(p) ==
  IF ~p.stream THEN {NoTrack}
  ELSE {[trackId |-> p.trackId, offset |-> o] : o \in 0..p.len}

PlayerInterrupted(p) ==
  IF ~p.stream THEN p
  ELSE [p EXCEPT !.stream = FALSE, !.trackId = 0, !.len = 0,
                 !.interruptedTrackIds = @ \cup {p.trackId}]

\* ------------------------------------------------------------ event log
\* A handler that appends every event.
LogAppendAlways(log, type) == Append(log, [type |-> type, count |-> 0])

\* client.on('realtime.event')
LogAppend(log, type) ==
  IF Len(log) > 0 /\ log[Len(log)].type = type
  THEN [log EXCEPT ![Len(log)].count = @ + 1]
  ELSE Append(log, [type |-> type, count |-> 0])   \* count undefined

OnRealtimeEvent(type) ==
  /\ client.ready /\ client.connected
  /\ LET log  == console.realtimeEvents
         same == Len(log) > 0 /\ log[Len(log)].type = type
     IN /\ same => ghost.runLen < MaxRun
        /\ ~same => Len(log) < MaxLog
        /\ console' = [console EXCEPT !.realtimeEvents = LogAppend(log, type)]
        /\ ghost' = [Touch(ghost) EXCEPT
                       !.runLen  = IF same THEN @ + 1 ELSE 1,
                       !.runBase = IF same THEN @ ELSE Len(log)]
  /\ UNCHANGED <<client, heap, wavRecorder, wavStreamPlayer, pc, local, decodes>>

\* ------------------------------------------------------------ connect
\* What is remembered of tasks that have ended is dropped when
\* connectConversation is invoked: the history kept is that of one session.
ForgetPc(t, at) ==
  [u \in Tasks |-> IF u = t THEN at
                   ELSE IF Resting(u) THEN "idle" ELSE pc[u]]

ForgetLocal == [u \in Tasks |-> IF Resting(u) THEN NoTrack ELSE local[u]]

ForgetGhost(g) ==
  [g EXCEPT !.discStreak = 0,
            !.discMid = FALSE,
            !.everConn = TRUE,
            !.steps = [u \in StartIds |->
                         IF Resting(u) THEN << >> ELSE g.steps[u]],
            !.cancelled = [u \in StartIds \cup {"intr"} |->
                             IF Resting(u) THEN NoTrack ELSE g.cancelled[u]],
            !.intrStopped = IF Resting("intr") THEN FALSE ELSE @,
            !.recBy = IF @ \in StartIds /\ Resting(@) THEN "earlier" ELSE @,
            !.afterStop = FALSE]

\* reconnectClient awaits client.connect() exactly when a client exists and
\* it is not connected.
ReconnectAwaits(c) == c.ready /\ ~ClientIsConnected(c)

\* Tasks suspended in client.connect().
InFlightConnects == {t \in Tasks : pc[t] = "awaitConnect"}

\* reconnectClient after client.connect() resolved: the session parameters
\* are sent again (updateSession leaves the turn-detection mode alone).
Reconnected(c) == SessionParameters(ClientConnected(c))

\* The same with getClient() called after the state variables are set.
ConnectSetsFlagFirst(t, c, g, l, at) ==
  /\ client' = c
  /\ local' = l
  /\ console' = [console EXCEPT !.isConnected = TRUE,
                                 !.realtimeEvents = << >>,
                                 !.items = c.items]
  /\ IF ~c.ready
     THEN /\ pc' = at["err_getClient"]
          /\ ghost' = g
     ELSE /\ ghost' = [g EXCEPT !.runLen = 0, !.runBase = 0]
          /\ pc' = IF BeginThrows(wavRecorder)
                    THEN at["err_begin"] ELSE at["awaitBegin"]
  /\ heap' = Collect(heap, Held(client', console', decodes))
  /\ UNCHANGED <<wavRecorder, wavStreamPlayer, decodes>>

\* connectConversation from the return of reconnectClient to its await of
\* wavRecorder.begin(); c is the client as reconnectClient left it.
ConnectAfterReconnect(t, c, g, l, at) ==
  /\ client' = c
  /\ local' = l
  /\ IF ~c.ready
     THEN /\ pc' = at["err_getClient"]
          /\ ghost' = g
          /\ UNCHANGED console
     ELSE /\ console' = [console EXCEPT !.isConnected = TRUE,
                                         !.realtimeEvents = << >>,
                                         !.items = c.items]
          /\ ghost' = [g EXCEPT !.runLen = 0, !.runBase = 0]
          /\ pc' = IF BeginThrows(wavRecorder)
                    THEN at["err_begin"] ELSE at["awaitBegin"]
  /\ heap' = Collect(heap, Held(client', console', decodes))
  /\ UNCHANGED <<wavRecorder, wavStreamPlayer, decodes>>

ConnPositions == {"awaitConnect", "awaitBegin", "err_getClient", "err_begin"}

\* connectConversation is invoked.
connectConversation(t) ==
  /\ t \in ConnIds /\ Resting(t)
  /\ IF ReconnectAwaits(client)
     THEN /\ pc' = ForgetPc(t, "awaitConnect")
          /\ ghost' = ForgetGhost(ghost)
          /\ local' = ForgetLocal
          /\ UNCHANGED <<client, heap, wavRecorder, wavStreamPlayer, console,
                         decodes>>
     ELSE ConnectAfterReconnect(t, client, ForgetGhost(ghost), ForgetLocal,
                                [x \in ConnPositions |-> ForgetPc(t, x)])

\* client.connect() resolves for connectConversation.
ConnectResolved(t) ==
  /\ t \in ConnIds /\ pc[t] = "awaitConnect"
  /\ ConnectAfterReconnect(t, Reconnected(client), Touch(ghost), local,
                           [x \in ConnPositions |-> [pc EXCEPT ![t] = x]])

\* client.connect() rejects: connectConversation rejects with it.
ConnectRejected(t) ==
  /\ t \in ConnIds /\ pc[t] = "awaitConnect"
  /\ pc' = [pc EXCEPT ![t] = "err_connect"]
  /\ ghost' = Touch(ghost)
  /\ UNCHANGED <<client, heap, wavRecorder, wavStreamPlayer, console, local,
                 decodes>>

\* wavRecorder.begin() resolves; wavStreamPlayer.connect() is awaited.
BeginResolved(t) ==
  /\ t \in ConnIds /\ pc[t] = "awaitBegin"
  /\ wavRecorder' = RecorderBegun(wavRecorder)
  /\ pc' = [pc EXCEPT ![t] = "awaitPlayer"]
  /\ ghost' = Touch(ghost)
  /\ UNCHANGED <<client, heap, wavStreamPlayer, console, local, decodes>>

\* wavRecorder.begin() rejects (no microphone).
BeginRejected(t) ==
  /\ t \in ConnIds /\ pc[t] = "awaitBegin"
  /\ pc' = [pc EXCEPT ![t] = "err_begin"]
  /\ ghost' = Touch(ghost)
  /\ UNCHANGED <<client, heap, wavRecorder, wavStreamPlayer, console, local,
                 decodes>>

\* wavStreamPlayer.connect() resolves: the greeting is sent and, in
\* server_vad mode, capture is started.
PlayerConnected(t) ==
  /\ t \in ConnIds /\ pc[t] = "awaitPlayer"
  /\ pc' = [pc EXCEPT ![t] =
              IF ~ClientCanSend(client) THEN "err_send"
              ELSE IF client.turnDetection # "server_vad" THEN "done"
              ELSE IF RecordThrows(wavRecorder) THEN "err_record"
              ELSE "awaitRecord"]
  /\ wavRecorder' = IF pc'[t] = "awaitRecord" THEN Asked(wavRecorder, t)
                    ELSE wavRecorder
  /\ ghost' = Touch(ghost)
  /\ UNCHANGED <<client, heap, wavStreamPlayer, console, local, decodes>>

\* wavRecorder.record() resolves: frames flow to client.appendInputAudio.
RecordResolved(t) ==
  /\ t \in ConnIds \cup StartIds /\ pc[t] = "awaitRecord"
  /\ Answers(wavRecorder, t)
  /\ wavRecorder' = RecorderRecording(wavRecorder)
  /\ pc' = [pc EXCEPT ![t] = "done"]
  /\ ghost' = [Touch(ghost) EXCEPT !.recBy = t]
  /\ UNCHANGED <<client, heap, wavStreamPlayer, console, local, decodes>>

\* ------------------------------------------------------------ disconnect
ResetOnDisconnect(s) ==
  [s EXCEPT !.isConnected = FALSE, !.realtimeEvents = << >>,
            !.items = << >>, !.memoryKv = [k \in Keys |-> ""],
            !.coords = DefaultCoords, !.marker = NoMarker]

\* disconnectConversation is invoked.
disconnectConversation ==
  /\ Resting("disc")
  /\ console' = ResetOnDisconnect(console)
  /\ LET from == console.isConnected /\ client.connected
                   /\ wavRecorder.processor
                   /\ \A t \in ConnIds : Resting(t)
         mid == \E t \in ConnIds : pc[t] \in {"awaitBegin", "awaitPlayer"}
         g == [ghost EXCEPT !.runLen = 0, !.runBase = 0, !.discFrom = from,
                            !.discMid = mid]
     IN IF ~client.ready
        THEN /\ pc' = [pc EXCEPT !["disc"] = "err_getClient"]
             /\ ghost' = Streak(g)
             /\ UNCHANGED client
        ELSE /\ client' = ClientDisconnect(client)
             /\ IF EndThrows(wavRecorder)
                THEN /\ pc' = [pc EXCEPT !["disc"] = "err_end"]
                     /\ ghost' = Streak(g)
                ELSE /\ pc' = [pc EXCEPT !["disc"] = "awaitEnd"]
                     /\ ghost' = g
  /\ wavRecorder' = IF pc'["disc"] = "awaitEnd"
                    THEN Asked(wavRecorder, "disc") ELSE wavRecorder
  /\ heap' = Collect(heap, Held(client', console', decodes))
  /\ UNCHANGED <<wavStreamPlayer, local, decodes>>

\* wavRecorder.end() resolves; wavStreamPlayer.interrupt() is awaited.
EndResolved ==
  /\ pc["disc"] = "awaitEnd"
  /\ Answers(wavRecorder, "disc")
  /\ wavRecorder' = RecorderEnded(wavRecorder)
  /\ pc' = [pc EXCEPT !["disc"] = "awaitInterrupt"]
  /\ ghost' = [ghost EXCEPT !.recBy = "none"]
  /\ UNCHANGED <<client, heap, wavStreamPlayer, console, local, decodes>>

\* wavStreamPlayer.interrupt() resolves: disconnectConversation returns.
DisconnectInterrupted ==
  /\ pc["disc"] = "awaitInterrupt"
  /\ wavStreamPlayer' = PlayerInterrupted(wavStreamPlayer)
  /\ pc' = [pc EXCEPT !["disc"] = "done"]
  /\ ghost' = Streak(ghost)
  /\ UNCHANGED <<client, heap, wavRecorder, console, local, decodes>>

\* ------------------------------------------------------------ push to talk
\* RealtimeClient.cancelResponse(id, offset) throws on a closed session and
\* for an id that is no assistant message of the conversation.
CancelThrows(c, h, id) ==
  \/ ~ClientCanSend(c)
  \/ \A k \in 1..Len(c.items) : c.items[k] # id
  \/ h[id].role # "assistant"

Did(g, t, what) == [g EXCEPT !.steps[t] = @ \o what]

\* startRecording calls wavStreamPlayer.interrupt() and awaits it.
StartAwaitInterrupt(t) == pc' = [pc EXCEPT ![t] = "awaitInterrupt"]

\* startRecording is invoked (mouse down on the push-to-talk button).
startRecording(t) ==
  /\ t \in StartIds /\ Resting(t)
  /\ console' = [console EXCEPT !.isRecording = TRUE]
  /\ local' = [local EXCEPT ![t] = NoTrack]
  /\ LET g == [Touch(ghost) EXCEPT !.steps[t] = << >>,
                                   !.cancelled[t] = NoTrack,
                                   !.recBy = IF @ = t THEN "earlier" ELSE @,
                                   !.afterStop = FALSE]
     IN IF ~client.ready
        THEN /\ pc' = [pc EXCEPT ![t] = "err_getClient"]
             /\ ghost' = g
        ELSE IF ~ClientIsConnected(client)
        THEN /\ pc' = [pc EXCEPT ![t] = "awaitConnect"]
             /\ ghost' = g
        ELSE /\ StartAwaitInterrupt(t)
             /\ ghost' = Did(g, t, <<"connected">>)
  /\ UNCHANGED <<client, heap, wavRecorder, wavStreamPlayer, decodes>>

\* reconnectClient resolves for startRecording.
StartReconnected(t) ==
  /\ t \in StartIds /\ pc[t] = "awaitConnect"
  /\ client' = Reconnected(client)
  /\ StartAwaitInterrupt(t)
  /\ ghost' = Did(Touch(ghost), t,
                   <<IF ClientIsConnected(client') THEN "connected"
                     ELSE "unconnected">>)
  /\ UNCHANGED <<heap, wavRecorder, wavStreamPlayer, console, local, decodes>>

\* A catch block that forgets setIsRecording(false).
CatchKeepsRecordingFlag(s) == s

\* What the catch block of startRecording leaves of the console state.
AfterFailedReconnect(s) == [s EXCEPT !.isRecording = FALSE]

\* reconnectClient rejects for startRecording: the catch block returns.
StartReconnectFailed(t) ==
  /\ t \in StartIds /\ pc[t] = "awaitConnect"
  /\ console' = AfterFailedReconnect(console)
  /\ pc' = [pc EXCEPT ![t] = "aborted"]
  /\ ghost' = Touch(ghost)
  /\ UNCHANGED <<client, heap, wavRecorder, wavStreamPlayer, local, decodes>>

\* startRecording calls wavRecorder.record().
StartCallsRecord(t) ==
  IF RecordThrows(wavRecorder)
  THEN /\ pc' = [pc EXCEPT ![t] = "err_record"]
       /\ UNCHANGED wavRecorder
  ELSE /\ pc' = [pc EXCEPT ![t] = "awaitRecord"]
       /\ wavRecorder' = Asked(wavRecorder, t)

\* A startRecording that goes on to record() without reporting the track.
StartSkipsCancel(t, r) ==
  /\ StartCallsRecord(t)
  /\ ghost' = Did(Touch(ghost), t, <<"interrupt", "record">>)

\* What startRecording does with the track the interrupt reported.
StartAfterInterrupt(t, r) ==
  IF r.trackId # 0
  THEN /\ pc' = [pc EXCEPT ![t] = IF CancelThrows(client, heap, r.trackId)
                                  THEN "err_cancel" ELSE "awaitCancel"]
       /\ ghost' = [Did(Touch(ghost), t, <<"interrupt", "cancel">>)
                      EXCEPT !.cancelled[t] = r]
       /\ UNCHANGED wavRecorder
  ELSE /\ StartCallsRecord(t)
       /\ ghost' = Did(Touch(ghost), t, <<"interrupt", "record">>)

\* wavStreamPlayer.interrupt() resolves for startRecording.
StartInterrupted(t) ==
  /\ t \in StartIds /\ pc[t] = "awaitInterrupt"
  /\ \E r \in InterruptResults(wavStreamPlayer) :
       /\ local' = [local EXCEPT ![t] = r]
       /\ StartAfterInterrupt(t, r)
  /\ wavStreamPlayer' = PlayerInterrupted(wavStreamPlayer)
  /\ UNCHANGED <<client, heap, console, decodes>>

\* client.cancelResponse() resolves for startRecording.
StartCancelled(t) ==
  /\ t \in StartIds /\ pc[t] = "awaitCancel"
  /\ StartCallsRecord(t)
  /\ ghost' = Did(Touch(ghost), t, <<"record">>)
  /\ UNCHANGED <<client, heap, wavStreamPlayer, console, local, decodes>>

\* The recorder hands a frame to the callback record() was given:
\* client.appendInputAudio(data.mono).
CaptureFrame ==
  /\ wavRecorder.processor /\ wavRecorder.recording
  /\ LET t == ghost.recBy
     IN /\ t \in StartIds
        /\ ghost.steps[t][Len(ghost.steps[t])] # "frame"
        /\ ghost' = Did(Touch(ghost), t, <<"frame">>)
  /\ UNCHANGED <<client, heap, wavRecorder, wavStreamPlayer, console, pc,
                 local, decodes>>

\* stopRecording is invoked (mouse up on the push-to-talk button).
stopRecording ==
  /\ Resting("stop")
  /\ console' = [console EXCEPT !.isRecording = FALSE]
  /\ pc' = [pc EXCEPT !["stop"] = IF ~client.ready THEN "err_getClient"
                                  ELSE IF PauseThrows(wavRecorder)
                                  THEN "err_pause" ELSE "awaitPause"]
  /\ wavRecorder' = IF pc'["stop"] = "awaitPause"
                    THEN Asked(wavRecorder, "stop") ELSE wavRecorder
  /\ ghost' = Touch(ghost)
  /\ UNCHANGED <<client, heap, wavStreamPlayer, local, decodes>>

\* wavRecorder.pause() resolves: client.createResponse() and return.
StopPaused ==
  /\ pc["stop"] = "awaitPause"
  /\ Answers(wavRecorder, "stop")
  /\ wavRecorder' = RecorderPaused(wavRecorder)
  /\ pc' = [pc EXCEPT !["stop"] = IF ClientCanSend(client) THEN "done"
                                  ELSE "err_send"]
  /\ ghost' = [Touch(ghost) EXCEPT !.afterStop = ClientCanSend(client),
                                   !.recBy = "none"]
  /\ UNCHANGED <<client, heap, wavStreamPlayer, console, local, decodes>>

\* ------------------------------------------------------------ turn detection
\* WavRecorder.getStatus()
RecorderStatus(r) ==
  IF ~r.processor THEN "ended"
  ELSE IF r.recording THEN "recording" ELSE "paused"

\* RealtimeClient.updateSession({turn_detection}): kept in the session
\* configuration, and sent when connected.
SessionUpdated(c, value) == [c EXCEPT !.turnDetection = value]

\* changeTurnEndType pauses the recorder before anything else.
PausesFirst(value, r) == value = "none" /\ RecorderStatus(r) = "recording"

\* changeTurnEndType from client.updateSession on; value is its argument.
TurnUpdate(value, g, r) ==
  /\ client' = SessionUpdated(client, value)
  /\ IF value = "server_vad" /\ ClientIsConnected(client)
     THEN /\ IF RecordThrows(r)
             THEN /\ pc' = [pc EXCEPT !["turn"] = "err_record"]
                  /\ wavRecorder' = r
             ELSE /\ pc' = [pc EXCEPT !["turn"] = "awaitRecord"]
                  /\ wavRecorder' = Asked(r, "turn")
          /\ ghost' = g
          /\ UNCHANGED console
     ELSE /\ wavRecorder' = r
          /\ console' = [console EXCEPT !.canPushToTalk = (value = "none")]
          /\ pc' = [pc EXCEPT !["turn"] = "done"]
          /\ ghost' = [g EXCEPT !.afterSwitch =
                                   g.turn.value = "none" /\ g.turn.rec]

\* changeTurnEndType(value) is invoked.
changeTurnEndType(value) ==
  /\ value \in Modes /\ Resting("turn")
  /\ LET g == [Touch(ghost) EXCEPT
                 !.turn = [value |-> value, was |-> client.turnDetection,
                           conn |-> ClientIsConnected(client),
                           rec |-> RecorderStatus(wavRecorder) = "recording"],
                 !.afterSwitch = FALSE]
     IN IF ~client.ready
        THEN /\ pc' = [pc EXCEPT !["turn"] = "err_getClient"]
             /\ ghost' = g
             /\ UNCHANGED <<client, console, wavRecorder>>
        ELSE IF PausesFirst(value, wavRecorder)
        THEN /\ pc' = [pc EXCEPT !["turn"] = "awaitPause"]
             /\ wavRecorder' = Asked(wavRecorder, "turn")
             /\ ghost' = g
             /\ UNCHANGED <<client, console>>
        ELSE TurnUpdate(value, g, wavRecorder)
  /\ UNCHANGED <<heap, wavStreamPlayer, local, decodes>>

\* wavRecorder.pause() resolves for changeTurnEndType('none').
TurnPaused ==
  /\ pc["turn"] = "awaitPause"
  /\ Answers(wavRecorder, "turn")
  /\ TurnUpdate("none", [Touch(ghost) EXCEPT !.recBy = "none"],
                RecorderPaused(wavRecorder))
  /\ UNCHANGED <<heap, wavStreamPlayer, local, decodes>>

\* wavRecorder.record() resolves for changeTurnEndType('server_vad').
TurnRecording ==
  /\ pc["turn"] = "awaitRecord"
  /\ Answers(wavRecorder, "turn")
  /\ wavRecorder' = RecorderRecording(wavRecorder)
  /\ console' = [console EXCEPT !.canPushToTalk = FALSE]
  /\ pc' = [pc EXCEPT !["turn"] = "done"]
  /\ ghost' = [Touch(ghost) EXCEPT !.recBy = "turn"]
  /\ UNCHANGED <<client, heap, wavStreamPlayer, local, decodes>>

\* ------------------------------------------------------------ interruption
\* client.on('conversation.interrupted') is invoked.
OnConversationInterrupted ==
  /\ client.ready /\ client.connected /\ Resting("intr")
  /\ pc' = [pc EXCEPT !["intr"] = "awaitInterrupt"]
  /\ local' = [local EXCEPT !["intr"] = NoTrack]
  /\ ghost' = [Touch(ghost) EXCEPT !.cancelled["intr"] = NoTrack,
                                   !.intrStopped = FALSE]
  /\ UNCHANGED <<client, heap, wavRecorder, wavStreamPlayer, console, decodes>>

\* A handler that reports the track but not how far it had played.
InterruptedDropsOffset(r) ==
  /\ pc' = [pc EXCEPT !["intr"] =
              IF r.trackId = 0 THEN "done"
              ELSE IF CancelThrows(client, heap, r.trackId) THEN "err_cancel"
              ELSE "awaitCancel"]
  /\ ghost' = [Touch(ghost) EXCEPT
                 !.cancelled["intr"] = [r EXCEPT !.offset = 0],
                 !.intrStopped = ~wavStreamPlayer'.stream]

\* What the handler does with the track the interrupt reported.
InterruptedAfterInterrupt(r) ==
  /\ pc' = [pc EXCEPT !["intr"] =
              IF r.trackId = 0 THEN "done"
              ELSE IF CancelThrows(client, heap, r.trackId) THEN "err_cancel"
              ELSE "awaitCancel"]
  /\ ghost' = [Touch(ghost) EXCEPT
                 !.cancelled["intr"] = IF r.trackId = 0 THEN NoTrack ELSE r,
                 !.intrStopped = ~wavStreamPlayer'.stream]

\* wavStreamPlayer.interrupt() resolves for the handler.
InterruptedInterrupted ==
  /\ pc["intr"] = "awaitInterrupt"
  /\ wavStreamPlayer' = PlayerInterrupted(wavStreamPlayer)
  /\ \E r \in InterruptResults(wavStreamPlayer) :
       /\ local' = [local EXCEPT !["intr"] = r]
       /\ InterruptedAfterInterrupt(r)
  /\ UNCHANGED <<client, heap, wavRecorder, console, decodes>>

\* client.cancelResponse() resolves for the handler.
InterruptedCancelled ==
  /\ pc["intr"] = "awaitCancel"
  /\ pc' = [pc EXCEPT !["intr"] = "done"]
  /\ ghost' = Touch(ghost)
  /\ UNCHANGED <<client, heap, wavRecorder, wavStreamPlayer, console, local,
                 decodes>>

\* ------------------------------------------------------------ focus, transport
\* The same without the test of isConnected.
HandleFocusAlways ==
  /\ Resting("focus")
  /\ pc' = [pc EXCEPT !["focus"] = IF ReconnectAwaits(client)
                                   THEN "awaitConnect" ELSE "done"]
  /\ ghost' = Touch(ghost)
  /\ UNCHANGED <<client, heap, wavRecorder, wavStreamPlayer, console, local,
                 decodes>>

\* handleFocus: a window focus event.
handleFocus ==
  /\ Resting("focus")
  /\ console.isConnected
  /\ pc' = [pc EXCEPT !["focus"] = IF ReconnectAwaits(client)
                                   THEN "awaitConnect" ELSE "done"]
  /\ ghost' = Touch(ghost)
  /\ UNCHANGED <<client, heap, wavRecorder, wavStreamPlayer, console, local,
                 decodes>>

FocusReconnected ==
  /\ pc["focus"] = "awaitConnect"
  /\ client' = Reconnected(client)
  /\ pc' = [pc EXCEPT !["focus"] = "done"]
  /\ ghost' = Touch(ghost)
  /\ UNCHANGED <<heap, wavRecorder, wavStreamPlayer, console, local, decodes>>

\* The rejection is caught and logged.
FocusReconnectFailed ==
  /\ pc["focus"] = "awaitConnect"
  /\ pc' = [pc EXCEPT !["focus"] = "aborted"]
  /\ ghost' = Touch(ghost)
  /\ UNCHANGED <<client, heap, wavRecorder, wavStreamPlayer, console, local,
                 decodes>>

\* The socket of a connected session closes; only client.on('error') hears
\* of it, and it logs.
TransportDrop ==
  /\ client.connected
  /\ client' = [client EXCEPT !.connected = FALSE]
  /\ ghost' = Touch(ghost)
  /\ UNCHANGED <<heap, wavRecorder, wavStreamPlayer, console, pc, local,
                 decodes>>

\* ------------------------------------------------------------ conversation
\* formatted.transcript || formatted.text || ''
MessageOf(it) == IF it.transcript # "" THEN it.transcript ELSE it.text

\* items.filter(i => i.role === role)
OfRole(list, h, role) == SelectSeq(list, LAMBDA x : h[x].role = role)

LastMessage(list, h, role, old) ==
  LET mine == OfRole(list, h, role)
  IN IF Len(mine) > 0 THEN MessageOf(h[mine[Len(mine)]]) ELSE old

\* The tail of the conversation.updated handler: setItems(items) and the
\* two last-message updates, read from the item objects as they are now.
ApplySnapshot(s, snap, h) ==
  [s EXCEPT !.items = snap,
            !.lastAssistantMessage = LastMessage(snap, h, "assistant", @),
            !.lastUserMessage = LastMessage(snap, h, "user", @)]

\* The handler awaits WavRecorder.decode for these items.
NeedsDecode(it) == it.status = "completed" /\ it.audio > 0

\* A handler that plays a delta only when no earlier handler is suspended.
UpdatedPlaysWhenIdle(id, hasAudio, h, c, p) ==
  /\ client' = c
  /\ wavStreamPlayer' = IF hasAudio /\ decodes = << >> THEN PlayerAdd(p, id)
                        ELSE p
  /\ IF NeedsDecode(h[id])
     THEN /\ Len(decodes) < MaxPending
          /\ decodes' = Append(decodes, [snap |-> c.items, id |-> id,
                                          audio |-> h[id].audio])
          /\ UNCHANGED console
     ELSE /\ console' = ApplySnapshot(console, c.items, h)
          /\ UNCHANGED decodes
  /\ heap' = Collect(h, Held(client', console', decodes'))
  /\ ghost' = Touch(ghost)
  /\ UNCHANGED <<wavRecorder, pc, local>>

\* client.on('conversation.updated') for item id, with h and c the item
\* objects and the client after the session applied the event.
OnConversationUpdated(id, hasAudio, h, c, p) ==
  /\ client' = c
  /\ wavStreamPlayer' = IF hasAudio THEN PlayerAdd(p, id) ELSE p
  /\ IF NeedsDecode(h[id])
     THEN /\ Len(decodes) < MaxPending
          /\ decodes' = Append(decodes, [snap |-> c.items, id |-> id,
                                          audio |-> h[id].audio])
          /\ UNCHANGED console
     ELSE /\ console' = ApplySnapshot(console, c.items, h)
          /\ UNCHANGED decodes
  /\ heap' = Collect(h, Held(client', console', decodes'))
  /\ ghost' = Touch(ghost)
  /\ UNCHANGED <<wavRecorder, pc, local>>

\* The session creates an item: a user message (typed, or spoken and already
\* completed with its audio) or an assistant message in progress.
NewItems ==
  { [role |-> "user", status |-> "completed", audio |-> 0,
     transcript |-> "", text |-> m, file |-> 0, made |-> 0] : m \in Texts }
  \cup { [role |-> "user", status |-> "completed", audio |-> 1,
          transcript |-> "", text |-> "", file |-> 0, made |-> 0],
         [role |-> "assistant", status |-> "in_progress", audio |-> 0,
          transcript |-> "", text |-> "", file |-> 0, made |-> 0] }


AssistantItem ==
  [role |-> "assistant", status |-> "in_progress", audio |-> 0,
   transcript |-> "", text |-> "", file |-> 0, made |-> 0]

ItemCreatedOf(kinds) ==
  /\ client.ready /\ client.connected
  /\ FreeIds # {}
  /\ LET id == CHOOSE i \in FreeIds : \A j \in FreeIds : i <= j
     IN \E it \in kinds :
          OnConversationUpdated(id, FALSE, [heap EXCEPT ![id] = it],
                                [client EXCEPT !.items = Append(@, id)],
                                [wavStreamPlayer EXCEPT
                                   !.interruptedTrackIds = @ \ {id}])

ItemCreated == ItemCreatedOf(NewItems)

\* The session starts a response: an assistant item in progress.
ResponseItemCreated ==
  /\ Len(client.items) < MaxResponses
  /\ ItemCreatedOf({AssistantItem})

\* response.audio.delta for an assistant item in progress.
AudioDelta ==
  /\ client.ready /\ client.connected
  /\ \E id \in ItemsOf(client.items) :
       /\ heap[id].role = "assistant" /\ heap[id].status = "in_progress"
       /\ heap[id].audio < MaxAudio
       /\ OnConversationUpdated(id, TRUE,
                                 [heap EXCEPT ![id].audio = @ + 1], client,
                                 wavStreamPlayer)

\* A transcript arrives: of an assistant item in progress, or of the audio
\* of a user item.
TranscriptDelta ==
  /\ client.ready /\ client.connected
  /\ \E id \in ItemsOf(client.items), m \in Msgs :
       /\ heap[id].transcript # m
       /\ \/ heap[id].role = "assistant" /\ heap[id].status = "in_progress"
          \/ heap[id].role = "user" /\ heap[id].audio > 0
                                    /\ heap[id].transcript = ""
       /\ OnConversationUpdated(id, FALSE,
                                 [heap EXCEPT ![id].transcript = m], client,
                                 wavStreamPlayer)

\* response.output_item.done
ItemCompleted ==
  /\ client.ready /\ client.connected
  /\ \E id \in ItemsOf(client.items) :
       /\ heap[id].status = "in_progress"
       /\ OnConversationUpdated(id, FALSE,
                                 [heap EXCEPT ![id].status = "completed"],
                                 client, wavStreamPlayer)

\* conversation.item.deleted
ItemDeleted ==
  /\ client.ready /\ client.connected
  /\ \E id \in ItemsOf(client.items) :
       OnConversationUpdated(id, FALSE, heap,
                             [client EXCEPT !.items = Remove(@, id)],
                             wavStreamPlayer)

\* WavRecorder.decode resolves for the k-th suspended handler.
DecodeResolved ==
  \E k \in 1..Len(decodes) :
    LET d == decodes[k]
        h == [heap EXCEPT ![d.id].file = d.audio,
                          ![d.id].made = IF @ < 2 THEN @ + 1 ELSE 2]
    IN /\ console' = ApplySnapshot(console, d.snap, h)
       /\ decodes' = SubSeq(decodes, 1, k - 1)
                       \o SubSeq(decodes, k + 1, Len(decodes))
       /\ heap' = Collect(h, Held(client, console', decodes'))
       /\ ghost' = Touch(ghost)
       /\ UNCHANGED <<client, wavRecorder, wavStreamPlayer, pc, local>>

\* WavRecorder.decode rejects for the k-th suspended handler: the handler
\* rejects with it.
DecodeRejected ==
  \E k \in 1..Len(decodes) :
    /\ decodes' = SubSeq(decodes, 1, k - 1)
                    \o SubSeq(decodes, k + 1, Len(decodes))
    /\ heap' = Collect(heap, Held(client, console, decodes'))
    /\ ghost' = Touch(ghost)
    /\ UNCHANGED <<client, wavRecorder, wavStreamPlayer, console, pc, local>>

\* The device has played its track to the end.
PlaybackEnds ==
  /\ wavStreamPlayer.stream
  /\ wavStreamPlayer' = [wavStreamPlayer EXCEPT !.stream = FALSE,
                                                !.trackId = 0, !.len = 0]
  /\ ghost' = Touch(ghost)
  /\ UNCHANGED <<client, heap, wavRecorder, console, pc, local, decodes>>

\* ------------------------------------------------------------ tools
\* A handler that builds the new store from the one key.
SetMemoryAlone(kv, key, value) ==
  [k \in Keys |-> IF k = key THEN value ELSE ""]

\* set_memory handler
SetMemory(kv, key, value) == [kv EXCEPT ![key] = value]

OnSetMemory ==
  /\ client.ready /\ client.connected
  /\ \E key \in Keys, value \in Msgs :
       /\ console.memoryKv[key] # value
       /\ console' = [console EXCEPT
                        !.memoryKv = SetMemory(@, key, value)]
  /\ ghost' = Touch(ghost)
  /\ UNCHANGED <<client, heap, wavRecorder, wavStreamPlayer, pc, local,
                 decodes>>

\* get_weather handler up to its await of fetch
OnGetWeather ==
  /\ client.ready /\ client.connected /\ Resting("weather")
  /\ \E place \in Places :
       /\ console' = [console EXCEPT
                        !.marker = [location |-> place, weather |-> FALSE],
                        !.coords = place]
       /\ local' = [local EXCEPT !["weather"] =
                      [trackId |-> 0, offset |-> 0, location |-> place]]
  /\ pc' = [pc EXCEPT !["weather"] = "awaitFetch"]
  /\ ghost' = Touch(ghost)
  /\ UNCHANGED <<client, heap, wavRecorder, wavStreamPlayer, decodes>>

\* A completion that reads the place from the console's coords.
WeatherFetchedReadsCoords ==
  /\ pc["weather"] = "awaitFetch"
  /\ console' = [console EXCEPT
                   !.marker = [location |-> console.coords,
                               weather |-> TRUE]]
  /\ local' = [local EXCEPT !["weather"] = NoTrack]
  /\ pc' = [pc EXCEPT !["weather"] = "done"]
  /\ ghost' = Touch(ghost)
  /\ UNCHANGED <<client, heap, wavRecorder, wavStreamPlayer, decodes>>

\* fetch and result.json() resolve with a forecast
WeatherFetched ==
  /\ pc["weather"] = "awaitFetch"
  /\ console' = [console EXCEPT
                   !.marker = [location |-> local["weather"].location,
                               weather |-> TRUE]]
  /\ local' = [local EXCEPT !["weather"] = NoTrack]
  /\ pc' = [pc EXCEPT !["weather"] = "done"]
  /\ ghost' = Touch(ghost)
  /\ UNCHANGED <<client, heap, wavRecorder, wavStreamPlayer, decodes>>

\* fetch or result.json() rejects, or the forecast has no 'current' object
\* to read temperature_2m from: the handler rejects.
WeatherFetchFailed ==
  /\ pc["weather"] = "awaitFetch"
  /\ local' = [local EXCEPT !["weather"] = NoTrack]
  /\ pc' = [pc EXCEPT !["weather"] = "err_fetch"]
  /\ ghost' = Touch(ghost)
  /\ UNCHANGED <<client, heap, wavRecorder, wavStreamPlayer, console, decodes>>

\* How the wallet tool handlers end: "result" (a value is returned), "error"
\* (an {error} object is returned) or "thrown".  call holds what the
\* handler's collaborators do: the wagmi account (address, balance), the
\* Basename lookup, the wallet and the page's buttons.
Calls ==
  [ address : BOOLEAN, balance : BOOLEAN, basename : BOOLEAN,
    resolved : {"address", "null", "thrown"}, amount : BOOLEAN,
    sent : {"sent", "thrown", "unreported"},
    button : BOOLEAN, callStarted : {"yes", "no", "thrown"} ]

\* The send_eth handler.  amount: parseEther accepts the amount.  sent: the
\* wallet sends the transaction ("sent"), or fails and sendTransaction throws
\* ("thrown"), or fails after sendTransaction has returned ("unreported":
\* sendTransaction of useSendTransaction reports through the hook's state).
SendEthReply(call) ==
  LET met == [NoReply EXCEPT !.address = call.address,
                             !.name = IF call.basename THEN call.resolved
                                      ELSE "plain"]
      failed == [met EXCEPT !.kind = "error",
                            !.text = "Failed to send transaction"]
  IN IF ~call.address
     THEN [met EXCEPT !.kind = "error", !.text = "No wallet connected"]
     ELSE IF call.basename /\ call.resolved = "thrown" THEN failed
     ELSE IF call.basename /\ call.resolved = "null"
     THEN [met EXCEPT !.kind = "error", !.text = "Unable to resolve Basename"]
     ELSE IF ~call.amount THEN failed
     ELSE IF call.sent = "thrown"
     THEN [failed EXCEPT !.submitted = TRUE, !.wallet = "failed"]
     ELSE [met EXCEPT !.submitted = TRUE,
                      !.wallet = IF call.sent = "sent" THEN "sent"
                                 ELSE "failed",
                      !.kind = "message", !.text = "Transaction sent"]

SendEth(call) ==
  IF SendEthReply(call).kind = "error" THEN "error" ELSE "result"

GetAccountBalance(call) ==
  IF ~call.address THEN "error"
  ELSE IF ~call.balance THEN "error" ELSE "result"

HideAccountBalance(call) == "result"

\* connectWallet / disconnectWallet / approveUsdc return a message for every
\* outcome, and the handlers return theirs after them.
ConnectWalletTool(call) == "result"
DisconnectWalletTool(call) == "result"
SwapUsdcForArs(call) == "result"

\* connectWallet: what it returns and whether it clicked the sign-up button.
connectWallet(call) ==
  IF call.address
  THEN [message |-> "Wallet already connected", acted |-> FALSE]
  ELSE IF call.button
  THEN [message |-> "Wallet connection initiated", acted |-> TRUE]
  ELSE [message |-> "Unable to initiate wallet connection", acted |-> FALSE]

\* disconnectWallet: what it returns and whether it called disconnect().
disconnectWallet(call) ==
  IF ~call.address
  THEN [message |-> "No wallet connected", acted |-> FALSE]
  ELSE [message |-> "Wallet disconnected", acted |-> TRUE]

\* The connect_wallet handler awaits connectWallet() and returns its own
\* message; submitted tells whether the button was clicked.
ConnectWalletReply(call) ==
  [NoReply EXCEPT !.address = call.address,
                  !.submitted = connectWallet(call).acted,
                  !.kind = "message",
                  !.text = "Wallet connection initiated"]

\* The disconnect_wallet handler awaits disconnectWallet() and returns its
\* own message; submitted tells whether disconnect() was called.
DisconnectWalletReply(call) ==
  [NoReply EXCEPT !.address = call.address,
                  !.submitted = disconnectWallet(call).acted,
                  !.kind = "message",
                  !.text = "Wallet disconnected"]

ToolReply(name, call) ==
  CASE name = "send_eth"          -> SendEthReply(call)
    [] name = "connect_wallet"    -> ConnectWalletReply(call)
    [] name = "disconnect_wallet" -> DisconnectWalletReply(call)
    [] OTHER                      -> NoReply

ToolOutcome(name, call) ==
  CASE name = "send_eth"             -> SendEth(call)
    [] name = "get_account_balance"  -> GetAccountBalance(call)
    [] name = "hide_account_balance" -> HideAccountBalance(call)
    [] name = "connect_wallet"       -> ConnectWalletTool(call)
    [] name = "disconnect_wallet"    -> DisconnectWalletTool(call)
    [] name = "swap_usdc_for_ars"    -> SwapUsdcForArs(call)

WalletTools == {"send_eth", "get_account_balance", "hide_account_balance",
                "connect_wallet", "disconnect_wallet", "swap_usdc_for_ars"}

\* What the handler of name, holding wallet w, can meet: the collaborators
\* it does not call are left out of the choice.
CallsOf(name, w) ==
  LET eth  == name = "send_eth"
      page == name \in {"connect_wallet", "swap_usdc_for_ars"}
      swap == name = "swap_usdc_for_ars"
  IN [ address : {w.address}, balance : {w.balance},
       basename : IF eth THEN BOOLEAN ELSE {FALSE},
       resolved : IF eth THEN {"address", "null", "thrown"} ELSE {"address"},
       amount : IF eth THEN BOOLEAN ELSE {TRUE},
       sent : IF eth THEN {"sent", "thrown", "unreported"} ELSE {"sent"},
       button : IF page THEN BOOLEAN ELSE {FALSE},
       callStarted : IF swap THEN {"yes", "no", "thrown"} ELSE {"no"} ]

\* A get_account_balance that shows the balance whenever a wallet is
\* connected.
ShowsWithoutBalance(name, call, s) ==
  IF name = "get_account_balance" /\ call.address
  THEN [s EXCEPT !.showBalance = TRUE]
  ELSE IF name = "hide_account_balance"
  THEN [s EXCEPT !.showBalance = FALSE]
  ELSE s

\* setShowBalance in get_account_balance and hide_account_balance; the other
\* wallet tools set no state of the console.
AfterWalletTool(name, call, s) ==
  IF name = "get_account_balance" /\ call.address /\ call.balance
  THEN [s EXCEPT !.showBalance = TRUE]
  ELSE IF name = "hide_account_balance"
  THEN [s EXCEPT !.showBalance = FALSE]
  ELSE s

\* The session calls a wallet tool and the handler runs to its end.
OnWalletTool ==
  /\ client.ready /\ client.connected
  /\ \E name \in WalletTools :
     \E call \in CallsOf(name, client.tools[name].wallet) :
       /\ client.tools[name].handlers > 0
       /\ console' = AfterWalletTool(name, call, console)
       /\ ghost' = [Touch(ghost) EXCEPT
                      !.tool = [name |-> name,
                                outcome |-> ToolOutcome(name, call),
                                reply |-> ToolReply(name, call)]]
  /\ UNCHANGED <<client, heap, wavRecorder, wavStreamPlayer, pc, local,
                 decodes>>

\* The effect runs again with no cleanup before it.
EffectRerunWithoutCleanup ==
  /\ client.ready
  /\ \E w \in Wallets \ {console.wallet} :
       /\ client' = SetupEffect(client, w)
       /\ console' = [console EXCEPT !.items = client'.items, !.wallet = w]
  /\ heap' = Collect(heap, Held(client', console', decodes))
  /\ ghost' = Touch(ghost)
  /\ UNCHANGED <<wavRecorder, wavStreamPlayer, pc, local, decodes>>

\* The wallet's address or balance changes: the setup effect's cleanup
\* resets the client and the effect runs again on it, setting the session
\* parameters and showing the client's (now empty) conversation.
SetupEffectRerun ==
  /\ client.ready
  /\ \E w \in Wallets \ {console.wallet} :
       /\ client' = SetupEffect(ClientReset(client), w)
       /\ console' = [console EXCEPT !.items = client'.items, !.wallet = w]
  /\ heap' = Collect(heap, Held(client', console', decodes))
  /\ ghost' = Touch(ghost)
  /\ UNCHANGED <<wavRecorder, wavStreamPlayer, pc, local, decodes>>

\* ------------------------------------------------------------ the console
\* The Connect / Disconnect button and the push-to-talk button as rendered.
ClickConnect(t)  == client.ready /\ ~console.isConnected
                    /\ connectConversation(t)
ClickDisconnect  == client.ready /\ console.isConnected
                    /\ disconnectConversation
MouseDown(t)     == console.isConnected /\ console.canPushToTalk
                    /\ startRecording(t)
MouseUp          == console.isConnected /\ console.canPushToTalk
                    /\ stopRecording

\* The 'api key' button is rendered (no relay server is configured:
\* LOCAL_RELAY_SERVER_URL is '').
ApiKeyButtonShown(s) == s.apiKey # ""

\* resetAPIKey: prompt() gives newApiKey ("null" when cancelled); a key that
\* was entered is stored and the page is loaded again, with a client when
\* the stored key is not empty.
resetAPIKey(newApiKey) ==
  IF newApiKey = "null" THEN UNCHANGED vars
  ELSE /\ client' = IF newApiKey # "" THEN SetupEffect(NewClient(TRUE), NoWallet)
                    ELSE NewClient(FALSE)
       /\ heap' = [i \in ItemIds |-> NoItem]
       /\ wavRecorder' = [processor |-> FALSE, recording |-> FALSE,
                          queue |-> << >>]
       /\ wavStreamPlayer' = [stream |-> FALSE, trackId |-> 0, len |-> 0,
                              interruptedTrackIds |-> {}]
       /\ console' = InitialConsole
       /\ pc' = [t \in Tasks |-> "idle"]
       /\ local' = [t \in Tasks |-> NoTrack]
       /\ decodes' = << >>
       /\ ghost' = InitialGhost

ClickApiKey ==
  /\ ApiKeyButtonShown(console)
  /\ \E newApiKey \in {"null", "", "sk"} : resetAPIKey(newApiKey)

\* The first click on Connect after the page has loaded.
OpenSession == ~ghost.everConn /\ ClickConnect("conn1")

ConnectSteps ==
  \E t \in ConnIds :
    \/ ConnectResolved(t)
    \/ ConnectRejected(t)
    \/ BeginResolved(t)
    \/ BeginRejected(t)
    \/ PlayerConnected(t)

DisconnectSteps ==
  \/ EndResolved
  \/ DisconnectInterrupted

RecordingSteps ==
  \/ \E t \in StartIds :
       \/ StartReconnected(t)
       \/ StartReconnectFailed(t)
       \/ StartInterrupted(t)
       \/ StartCancelled(t)
       \/ RecordResolved(t)
  \/ StopPaused
  \/ CaptureFrame

TurnSteps ==
  \/ \E value \in Modes : changeTurnEndType(value)
  \/ TurnPaused
  \/ TurnRecording

InterruptionSteps ==
  \/ OnConversationInterrupted
  \/ InterruptedInterrupted
  \/ InterruptedCancelled

\* Push-to-talk on one session: connect, talk, drop, disconnect.
Next ==
  \/ OpenSession
  \/ ConnectSteps
  \/ ClickDisconnect
  \/ DisconnectSteps
  \/ MouseDown("start1")
  \/ MouseUp
  \/ RecordingSteps
  \/ TransportDrop
  \/ ResponseItemCreated
  \/ AudioDelta
  \/ PlaybackEnds

Spec == Init /\ [][Next]_vars

\* Push-to-talk with the button pressed again before the first press has
\* been served: two startRecording calls in flight.
NextOverlap ==
  \/ OpenSession
  \/ ConnectSteps
  \/ \E t \in StartIds : MouseDown(t)
  \/ MouseUp
  \/ RecordingSteps
  \/ TransportDrop
  \/ ResponseItemCreated
  \/ AudioDelta
  \/ PlaybackEnds

SpecOverlap == Init /\ [][NextOverlap]_vars

\* Turn detection switched during a session, with push-to-talk.
NextTurn ==
  \/ OpenSession
  \/ ConnectSteps
  \/ \E t \in ConnIds : RecordResolved(t)
  \/ TurnSteps
  \/ MouseDown("start1")
  \/ MouseUp
  \/ RecordingSteps
  \/ TransportDrop
  \/ ResponseItemCreated
  \/ AudioDelta

SpecTurn == Init /\ [][NextTurn]_vars

\* Playback of a response and its interruption.
NextInterrupt ==
  \/ ClickConnect("conn1")
  \/ ConnectSteps
  \/ ClickDisconnect
  \/ DisconnectSteps
  \/ InterruptionSteps
  \/ TransportDrop
  \/ ResponseItemCreated
  \/ AudioDelta
  \/ ItemDeleted
  \/ PlaybackEnds

SpecInterrupt == Init /\ [][NextInterrupt]_vars

\* The event log of a session.
NextLog ==
  \/ ClickConnect("conn1")
  \/ ConnectSteps
  \/ ClickDisconnect
  \/ DisconnectSteps
  \/ TransportDrop
  \/ \E type \in EvTypes : OnRealtimeEvent(type)

SpecLog == Init /\ [][NextLog]_vars

\* The conversation of a session and the handlers that mirror it.
NextConv ==
  \/ OpenSession
  \/ ConnectSteps
  \/ ClickDisconnect
  \/ DisconnectSteps
  \/ ItemCreated
  \/ AudioDelta
  \/ TranscriptDelta
  \/ ItemCompleted
  \/ ItemDeleted
  \/ DecodeResolved
  \/ PlaybackEnds

SpecConv == Init /\ [][NextConv]_vars

\* The conversation of a session when audio may fail to decode.
NextDecode ==
  \/ OpenSession
  \/ ConnectSteps
  \/ ItemCreated
  \/ TranscriptDelta
  \/ ItemDeleted
  \/ DecodeResolved
  \/ DecodeRejected

SpecDecode == Init /\ [][NextDecode]_vars

\* Connections: every way a connect is started, and every way one ends.
NextSession ==
  \/ \E t \in ConnIds : ClickConnect(t)
  \/ ConnectSteps
  \/ ClickDisconnect
  \/ DisconnectSteps
  \/ handleFocus
  \/ FocusReconnected
  \/ FocusReconnectFailed
  \/ TransportDrop

SpecSession == Init /\ [][NextSession]_vars

\* The functions of the console called in any state, as their contracts
\* are stated.
NextCalls ==
  \/ connectConversation("conn1")
  \/ ConnectSteps
  \/ disconnectConversation
  \/ DisconnectSteps
  \/ ItemCreated
  \/ DecodeResolved
  \/ startRecording("start1")
  \/ StartReconnected("start1")
  \/ StartInterrupted("start1")
  \/ RecordResolved("start1")

SpecCalls == Init /\ [][NextCalls]_vars

\* The end of a session: what the session and its tools do to the console
\* until, and while, it is torn down.
NextTeardown ==
  \/ OpenSession
  \/ ConnectSteps
  \/ ClickDisconnect
  \/ DisconnectSteps
  \/ ItemCreated
  \/ DecodeResolved
  \/ OnSetMemory
  \/ OnGetWeather
  \/ WeatherFetched

SpecTeardown == Init /\ [][NextTeardown]_vars

\* Connecting with either turn-detection mode selected, and a wallet whose
\* account changes.
NextConfig ==
  \/ OpenSession
  \/ ConnectSteps
  \/ \E t \in ConnIds : RecordResolved(t)
  \/ TurnSteps
  \/ SetupEffectRerun

SpecConfig == Init /\ [][NextConfig]_vars

\* connectConversation and disconnectConversation called in any state, with
\* a client or without one.
NextConnectCalls ==
  \/ \E t \in ConnIds : connectConversation(t)
  \/ ConnectSteps
  \/ disconnectConversation
  \/ DisconnectSteps
  \/ TransportDrop

SpecConnectCalls == Init /\ [][NextConnectCalls]_vars

\* Playback of a response while earlier handlers decode.
NextPlayback ==
  \/ OpenSession
  \/ ConnectSteps
  \/ ItemCreated
  \/ AudioDelta
  \/ ItemCompleted
  \/ DecodeResolved

SpecPlayback == Init /\ [][NextPlayback]_vars

\* The tools the session may call.
NextTools ==
  \/ OpenSession
  \/ ConnectSteps
  \/ ClickDisconnect
  \/ DisconnectSteps
  \/ TransportDrop
  \/ OnSetMemory
  \/ OnGetWeather
  \/ WeatherFetched
  \/ WeatherFetchFailed
  \/ OnWalletTool
  \/ SetupEffectRerun

SpecTools == Init /\ [][NextTools]_vars

\* ------------------------------------------------------------ properties
IsPrefix(p, q) == Len(p) <= Len(q) /\ p = SubSeq(q, 1, Len(p))

\* C1: N >= 1 consecutive realtime events of one type, arriving on an empty
\* log or after an entry of another type, are held as exactly one log entry
\* whose count is N.
EventRunCounted ==
  ghost.runLen >= 1 =>
    LET log == console.realtimeEvents
    IN /\ Len(log) = ghost.runBase + 1
       /\ log[Len(log)].count = ghost.runLen

\* C2: when no conversation.updated handler is left suspended, the last
\* assistant message and the last user message shown are the transcript (or
\* else the text) of the most recent item of that role in the session's
\* item list.
LastMessagesFollowSession ==
  decodes = << >> =>
    /\ Len(OfRole(client.items, heap, "assistant")) > 0 =>
         console.lastAssistantMessage
           = LastMessage(client.items, heap, "assistant", "")
    /\ Len(OfRole(client.items, heap, "user")) > 0 =>
         console.lastUserMessage
           = LastMessage(client.items, heap, "user", "")

\* C3: a disconnectConversation call that follows another one directly, or
\* that is made before any connectConversation, ends without an error and
\* leaves every console state variable at its initial value.
DisconnectIdempotent ==
  (ghost.discStreak = 2 \/ (ghost.discStreak >= 1 /\ ~ghost.everConn)) =>
    /\ pc["disc"] = "done"
    /\ console = InitialConsole

\* C4: when disconnectConversation, called on a connected console, has
\* completed, the session is disconnected, capture is ended, playback is
\* silent, the connection flag is false, items, event log, memory and marker
\* are empty and coords are the default.
DisconnectTearsDown ==
  (pc["disc"] = "done" /\ ghost.discFrom /\ ghost.discStreak >= 1) =>
    /\ ~client.connected
    /\ ~wavRecorder.processor
    /\ ~wavStreamPlayer.stream
    /\ ~console.isConnected
    /\ console.items = << >>
    /\ console.realtimeEvents = << >>
    /\ console.memoryKv = [k \in Keys |-> ""]
    /\ console.marker = NoMarker
    /\ console.coords = DefaultCoords

\* C5: disconnectConversation invoked while connectConversation is between
\* setting the connection flag and sending its greeting raises no error, the
\* resumed connect sends nothing on the closed session, and once both have
\* ended the console is disconnected with the recorder ended.
DisconnectDuringConnectSafe ==
  ghost.discMid =>
    /\ pc["disc"] \notin ErrPcs
    /\ \A t \in ConnIds : pc[t] # "err_send"
    /\ (Resting("disc") /\ \A t \in ConnIds : Resting(t)) =>
         /\ ~console.isConnected
         /\ ~client.connected
         /\ ~wavRecorder.processor

\* C6: client.connect() is never in flight twice at the same time.
OneConnectInFlight == Cardinality(InFlightConnects) <= 1

\* C7: once the conversation.interrupted handler has resumed from
\* wavStreamPlayer.interrupt(), playback is silent; if a track was reported
\* the handler has called cancelResponse with exactly that trackId and
\* offset, and if none was reported it has called no cancelResponse and has
\* ended without an error.
InterruptionReported ==
  pc["intr"] \in {"awaitCancel", "err_cancel", "done"} =>
    /\ ghost.intrStopped
    /\ local["intr"].trackId # 0 =>
         ghost.cancelled["intr"] = local["intr"]
    /\ local["intr"].trackId = 0 =>
         /\ ghost.cancelled["intr"] = NoTrack
         /\ pc["intr"] = "done"

InterruptionReportedWitness ==
  /\ pc["intr"] = "awaitCancel"
  /\ local["intr"].trackId # 0
  /\ local["intr"].offset = MaxAudio

\* C8: every startRecording call does its steps in the order: client
\* connected, playback interrupted, cancelResponse with the reported track
\* (exactly when a track was reported), record(); a frame is forwarded by the
\* call only after all of them.
StartRecordingOrder ==
  \A t \in StartIds :
    /\ local[t].trackId # 0 =>
         /\ IsPrefix(ghost.steps[t],
                     <<"connected", "interrupt", "cancel", "record", "frame">>)
         /\ ghost.cancelled[t] = local[t]
    /\ local[t].trackId = 0 =>
         /\ IsPrefix(ghost.steps[t],
                     <<"connected", "interrupt", "record", "frame">>)
         /\ ghost.cancelled[t] = NoTrack

StartRecordingOrderWitness ==
  \E t \in StartIds :
    /\ ghost.steps[t]
         = <<"connected", "interrupt", "cancel", "record", "frame">>
    /\ ghost.cancelled[t].offset = MaxAudio

\* C9: the step in which startRecording gives up after a failed reconnect
\* leaves the recording flag false and touches neither playback nor the
\* recorder, and the call has neither interrupted, cancelled nor recorded.
FailedReconnectAborts ==
  [][\A t \in StartIds :
       (pc[t] = "awaitConnect" /\ pc'[t] = "aborted") =>
         /\ ~console'.isRecording
         /\ wavStreamPlayer' = wavStreamPlayer
         /\ wavRecorder' = wavRecorder
         /\ ghost'.steps[t] = << >>
         /\ ghost'.cancelled[t] = NoTrack
         /\ ghost'.recBy # t]_vars

FailedReconnectAbortsWitness ==
  \E t \in StartIds :
    /\ pc[t] = "aborted"
    /\ ~console.isRecording
    /\ wavStreamPlayer.stream

\* C10: stopRecording pauses capture and calls createResponse, and once it
\* has returned the recorder forwards no frame until startRecording is
\* invoked again.
StopRecordingStops ==
  /\ pc["stop"] # "err_pause"
  /\ ghost.afterStop => ~(wavRecorder.processor /\ wavRecorder.recording)

\* Frames reach the session: the recorder is recording and the callback's
\* client.appendInputAudio goes out.
Forwarding ==
  wavRecorder.processor /\ wavRecorder.recording /\ ClientCanSend(client)

\* C11: changeTurnEndType('none') that finds the recorder recording pauses
\* it before the session update is sent, and after that call has ended
\* frames reach the session only through a startRecording call.
ManualSwitchPausesFirst ==
  /\ pc["turn"] = "awaitPause" => client.turnDetection = ghost.turn.was
  /\ ghost.afterSwitch =>
       (Forwarding => ghost.recBy \in StartIds \cup {"earlier"})

\* C13: over all the conversation.updated events an item receives, its
\* decoded audio file is made at most once, and a file that was made is the
\* decode of the audio the item holds.
DecodedOnce ==
  \A id \in ItemIds :
    /\ heap[id].made <= 1
    /\ heap[id].made > 0 => heap[id].file = heap[id].audio

\* C14: when no conversation.updated handler is left suspended, the items
\* the view holds are the session's item list.
SnapshotsInOrder == decodes = << >> => console.items = client.items

\* C15: a step in which a suspended conversation.updated handler ends
\* without a decoded file leaves the view's items and last messages as that
\* handler's snapshot gives them.
DecodeFailureTolerated ==
  [][(Len(decodes') < Len(decodes)
       /\ \A id \in ItemIds : heap'[id].made = heap[id].made) =>
      \E k \in 1..Len(decodes) :
        console' = ApplySnapshot(console, decodes[k].snap, heap)]_vars

\* C16: no tool handler ends by throwing: get_weather never rejects and
\* every wallet tool call returns a result or an {error} object.
ToolsNeverThrow ==
  /\ pc["weather"] # "err_fetch"
  /\ ghost.tool.outcome # "thrown"

\* C17: while the console is disconnected (flag false, session closed) the
\* marker is null and coords are the default, whatever tool call was in
\* flight when the session was disconnected.
StaleToolResultDiscarded ==
  (~console.isConnected /\ ~client.connected) =>
    /\ console.marker = NoMarker
    /\ console.coords = DefaultCoords

\* C18: when connectConversation completes, the connection flag is true, the
\* client is connected and the session configuration holds the instructions,
\* whisper-1 transcription and the turn-detection mode selected in the
\* console (the one changeTurnEndType was last called with, manual at first;
\* no changeTurnEndType call being in progress).
ConnectedWithSessionConfig ==
  [][\A t \in ConnIds :
       (pc[t] # "done" /\ pc'[t] = "done" /\ Resting("turn")') =>
         /\ console'.isConnected
         /\ client'.connected
         /\ client'.instructions
         /\ client'.transcription = "whisper-1"
         /\ client'.turnDetection = ghost'.turn.value]_vars

\* C19: with no client, connectConversation ends with the error of
\* getClient and nowhere else, the connection flag is false, event log and
\* items are empty as they were, and neither the recorder nor the player has
\* been started.
NoClientConnectFails ==
  ~client.ready =>
    /\ \A t \in ConnIds : pc[t] \in {"idle", "err_getClient"}
    /\ ~console.isConnected
    /\ console.realtimeEvents = << >>
    /\ console.items = << >>
    /\ ~wavRecorder.processor
    /\ ~wavStreamPlayer.stream

NoClientConnectFailsWitness ==
  ~client.ready /\ pc["conn1"] = "err_getClient"

\* C20: no audio frame is forwarded on a session while the
\* connectConversation that opened it has not yet sent its greeting.
GreetingBeforeFrames ==
  (\E t \in ConnIds : pc[t] \in {"awaitConnect", "awaitBegin", "awaitPlayer"})
    => ~Forwarding

\* C21: the recorder's callback, which calls client.appendInputAudio with
\* every frame, does not run while the client is not connected.
FramesOnlyWhileConnected ==
  (wavRecorder.processor /\ wavRecorder.recording) => ClientCanSend(client)

\* C22: once no handler of the console is running, a session whose transport
\* has closed shows as disconnected: the connection flag is false whenever
\* the client is not connected.
DropClearsConnectionFlag ==
  ((\A t \in Tasks : Resting(t)) /\ ~client.connected)
    => ~console.isConnected

\* C23: a focus event starts a reconnect attempt only with the connection
\* flag true; the attempt awaits
\* client.connect() exactly when a client exists that is not connected; no
\* step of the attempt changes the console state, and a failed attempt ends
\* caught, leaving the client as it was.
FocusReconnects ==
  [][(pc'["focus"] # pc["focus"] /\ pc'["focus"] # "idle") =>
       /\ console' = console
       /\ Resting("focus") =>
            /\ console.isConnected
            /\ pc'["focus"] = IF client.ready /\ ~client.connected
                              THEN "awaitConnect" ELSE "done"
       /\ pc["focus"] = "awaitConnect" =>
            \/ pc'["focus"] = "done" /\ client'.connected
            \/ pc'["focus"] = "aborted" /\ client' = client]_vars

FocusReconnectsWitness ==
  pc["focus"] = "aborted" /\ console.isConnected /\ ~client.connected

\* C24: startRecording is invoked only while the recording flag is false
\* (no recording started or starting), and stopRecording only while it is
\* true.
RecordingCallsAlternate ==
  [][/\ \A t \in StartIds :
          (Resting(t) /\ pc'[t] \in {"awaitConnect", "awaitInterrupt"})
            => ~console.isRecording
     /\ (Resting("stop") /\ pc'["stop"] \in {"awaitPause", "err_pause"})
          => console.isRecording]_vars

\* C25: on a console with a client, every tool name has exactly one handler
\* and that handler has captured the wallet the console now shows, and every
\* session event has exactly one subscriber.
OneHandlerEach ==
  client.ready =>
    /\ \A n \in ToolNames :
         /\ client.tools[n].handlers = 1
         /\ client.tools[n].wallet = console.wallet
    /\ \A e \in SessionEvents : client.subscribers[e] = 1

OneHandlerEachWitness ==
  /\ console.wallet.address /\ console.wallet.balance
  /\ ghost.tool.name = "get_account_balance" /\ ghost.tool.outcome = "result"

\* C26: on a console with no client (no stored key, no relay) the user can
\* reach the credential prompt.
CredentialPromptReachable ==
  ~client.ready => ENABLED ClickApiKey

\* C27: no two adjacent entries of the event log have the same type, and the
\* log is empty after the step of connectConversation that sets the state
\* variables and after the step of disconnectConversation that resets them.
LogHasNoAdjacentRepeats ==
  /\ [](\A k \in 1..(Len(console.realtimeEvents) - 1) :
          console.realtimeEvents[k].type # console.realtimeEvents[k + 1].type)
  /\ [][/\ \A t \in ConnIds :
            ((Resting(t) \/ pc[t] = "awaitConnect") /\ pc'[t] # pc[t]
               /\ pc'[t] \in {"awaitBegin", "err_begin"})
              => console'.realtimeEvents = << >>
        /\ (Resting("disc") /\ pc'["disc"] \in {"awaitEnd", "err_end"})
              => console'.realtimeEvents = << >>]_vars

LogHasNoAdjacentRepeatsWitness ==
  LET log == console.realtimeEvents
  IN /\ Len(log) >= 2
     /\ log[1].count > 0
     /\ log[2].count > 0

\* C28: the audio delta of a conversation.updated event is handed to the
\* player in the step in which the event arrives, under the id of its item,
\* whether or not earlier handlers are still suspended in decode.
AudioDeltasPlayedOnArrival ==
  [][\A id \in ItemIds :
       (heap[id].role = "assistant" /\ heap'[id].role = "assistant"
          /\ heap'[id].audio = heap[id].audio + 1)
         => wavStreamPlayer' = PlayerAdd(wavStreamPlayer, id)]_vars

AudioDeltasPlayedOnArrivalWitness ==
  /\ Len(decodes) > 0
  /\ wavStreamPlayer.stream
  /\ wavStreamPlayer.trackId # decodes[1].id
  /\ heap[wavStreamPlayer.trackId].audio > 0

\* C29: send_eth calls sendTransaction only with a wallet address connected
\* and a recipient that is an address or a Basename that resolved; with no
\* wallet it returns the error 'No wallet connected' and with a Basename that
\* resolves to nothing 'Unable to resolve Basename', calling sendTransaction
\* in neither case; a transfer the wallet fails yields an {error} and one it
\* sends a {message}.
SendEthNormalises ==
  ghost.tool.name = "send_eth" =>
    LET r == ghost.tool.reply
    IN /\ r.submitted => (r.address /\ r.name \in {"plain", "address"})
       /\ ~r.address =>
            (r.kind = "error" /\ r.text = "No wallet connected"
               /\ ~r.submitted)
       /\ (r.address /\ r.name = "null") =>
            (r.kind = "error" /\ r.text = "Unable to resolve Basename"
               /\ ~r.submitted)
       /\ r.wallet = "failed" => r.kind = "error"
       /\ r.wallet = "sent" => r.kind = "message"

MemoryOnlyBySetMemory ==
  [][console'.memoryKv # console.memoryKv =>
       \E key \in Keys, value \in Msgs :
         /\ console'.memoryKv[key] = value
         /\ \A k \in Keys \ {key} :
              console'.memoryKv[k] = console.memoryKv[k]]_vars

\* C31: every change of the memory store is either a set_memory call's,
\* which sets one key to the value given and leaves the other keys alone, or
\* the reset of disconnectConversation, which empties the store; no other
\* tool and no session event changes it.
MemoryBySetMemoryOrDisconnect ==
  [][console'.memoryKv # console.memoryKv =>
       \/ \E key \in Keys, value \in Msgs :
            /\ console'.memoryKv[key] = value
            /\ \A k \in Keys \ {key} :
                 console'.memoryKv[k] = console.memoryKv[k]
            /\ console' = [console EXCEPT !.memoryKv = console'.memoryKv]
            /\ pc' = pc
       \/ /\ console' = ResetOnDisconnect(console)
          /\ Resting("disc") /\ pc'["disc"] \in {"awaitEnd", "err_end"}]_vars

MemoryBySetMemoryOrDisconnectWitness ==
  /\ console.memoryKv["k"] \in Msgs
  /\ console.memoryKv["l"] \in Msgs
  /\ console.memoryKv["k"] # console.memoryKv["l"]
  /\ console.marker # NoMarker
  /\ console.items # << >>

\* C32: a get_account_balance call sets the balance display flag to true
\* and returns the balance when its wallet has an address and a balance, and
\* otherwise returns an {error} and leaves the flag as it was; a
\* hide_account_balance call sets the flag to false; neither changes any
\* other state of the console, and nothing else changes the flag.
BalanceFlagFollowsTools ==
  [][(console'.showBalance # console.showBalance
        \/ ghost'.tool # ghost.tool) =>
       LET name == ghost'.tool.name
           w == client.tools[name].wallet
       IN /\ name = "get_account_balance" =>
               IF w.address /\ w.balance
               THEN console'.showBalance /\ ghost'.tool.outcome = "result"
               ELSE /\ console'.showBalance = console.showBalance
                    /\ ghost'.tool.outcome = "error"
          /\ name = "hide_account_balance" => ~console'.showBalance
          /\ name \notin {"get_account_balance", "hide_account_balance"}
               => console'.showBalance = console.showBalance
          /\ console' = [console EXCEPT !.showBalance = console'.showBalance]
    ]_vars

BalanceFlagFollowsToolsWitness ==
  /\ console.showBalance
  /\ ghost.tool.name = "get_account_balance"
  /\ console.memoryKv["k"] # ""

\* C33: whenever the connection flag is true and no connect or disconnect
\* call is in progress, the client session is connected; a change of wallet
\* address or balance does not end a live session.
\* Stated for calls that ran to their end: none is suspended and none threw.
FlagMeansSessionLive ==
  (console.isConnected
     /\ \A t \in ConnIds \cup {"disc"} : pc[t] \in {"idle", "done"})
    => client.connected

\* C34: in manual mode, once every startRecording and stopRecording call has
\* finished, a false recording flag implies that the recorder is paused: it
\* forwards no frame.
IdleFlagMeansPaused ==
  (/\ console.canPushToTalk
   /\ \A t \in StartIds \cup {"stop"} : Resting(t)
   /\ ~console.isRecording)
    => ~(wavRecorder.processor /\ wavRecorder.recording)

\* C35: a disconnect_wallet call returns 'Wallet disconnected' only when a
\* wallet was connected and the wallet's disconnect was invoked; a
\* connect_wallet call returns 'Wallet connection initiated' only when no
\* wallet was connected and the sign-up button was found and clicked.
WalletRepliesTellWhatWasDone ==
  LET r == ghost.tool.reply
  IN /\ (ghost.tool.name = "disconnect_wallet"
           /\ r.text = "Wallet disconnected")
          => (r.address /\ r.submitted)
     /\ (ghost.tool.name = "connect_wallet"
           /\ r.text = "Wallet connection initiated")
          => (~r.address /\ r.submitted)

\* C12: a changeTurnEndType('server_vad') call made while the client is
\* connected ends without an error with the recorder recording and
\* push-to-talk disabled; one made while the client is not connected calls
\* no record().
VadSwitchStartsCapture ==
  /\ (ghost.turn.value = "server_vad" /\ ghost.turn.conn) =>
       pc["turn"] \notin ErrPcs
  /\ (ghost.turn.value = "server_vad" /\ ghost.turn.conn
        /\ pc["turn"] = "done") =>
       /\ RecorderStatus(wavRecorder) = "recording"
       /\ ~console.canPushToTalk
  /\ (ghost.turn.value = "server_vad" /\ ~ghost.turn.conn) =>
       pc["turn"] # "awaitRecord"

=============================================================================
